---- MODULE Spec2Model ----
(***************************************************************************)
(* The versioned memory store of backend/main.go (latest revision: tags,   *)
(* graceful shutdown, configurable port).  The state is the `memories`     *)
(* table; every HTTP handler is one action that runs its SQL statements in *)
(* the order of the code and records the response it returns.              *)
(*                                                                         *)
(* Strings are sequences of one-character strings, so that equality,       *)
(* ordering and substring tests are computed and not assumed.              *)
(***************************************************************************)
EXTENDS Integers, Sequences, FiniteSets, TLC

\* ------------------------------------------------------------------ bounds
\* Rows the table may hold: an insert is only taken below this bound.
MaxRows == 3

\* ------------------------------------------------------------------ inputs
\* memory_id values a caller sends.
IdSet == { <<"a">>, <<"b">> }


\* A Go []string: the nil slice, or a slice with elements.
NilSlice == [isNil |-> TRUE, elems |-> <<>>]

MkSlice(ss) == [isNil |-> FALSE, elems |-> ss]

\* content and tags a caller sends with a save or an update; "p" is a proper
\* substring of the tag "pq".
BodySet ==
  { [content |-> <<"x">>, tags |-> MkSlice(<< <<"p">> >>)],
    [content |-> <<"x">>, tags |-> MkSlice(<< <<"p", "q">>, <<"q">> >>)],
    [content |-> <<"y">>, tags |-> MkSlice(<< <<"p", "q">>, <<"q">> >>)] }

\* tag values a caller asks /list-memories-by-tag for ("" is the missing one).
TagQuerySet == { <<>>, <<"p">>, <<"q">> }

\* q values a caller asks /search-memories for.
SearchSet == { <<>>, <<"x">>, <<"A">>, <<"z">> }

\* ----------------------------------------------------------------- strings
\* Byte value of a character (ASCII), for the BINARY collation of ORDER BY.
Ord(c) ==
  CASE c = "\"" -> 34 [] c = "%" -> 37 [] c = "," -> 44 [] c = "A" -> 65
    [] c = "[" -> 91
    [] c = "\\" -> 92 [] c = "]" -> 93 [] c = "_" -> 95
    [] c = "a" -> 97 [] c = "b" -> 98 [] c = "l" -> 108 [] c = "n" -> 110
    [] c = "p" -> 112 [] c = "q" -> 113 [] c = "u" -> 117 [] c = "x" -> 120
    [] c = "y" -> 121 [] c = "z" -> 122

\* memcmp order of two strings: s sorts strictly before t.
RECURSIVE StrLess(_, _)
StrLess(s, t) ==
  IF t = <<>> THEN FALSE
  ELSE IF s = <<>> THEN TRUE
  ELSE IF Head(s) = Head(t) THEN StrLess(Tail(s), Tail(t))
  ELSE Ord(Head(s)) < Ord(Head(t))

\* SQLite's LIKE folds the case of ASCII letters before comparing.
Fold(c) == IF c = "A" THEN "a" ELSE c

\* SQLite LIKE: '%' matches any run of characters, '_' any one character,
\* every other pattern character matches itself up to ASCII case.
RECURSIVE Like(_, _)
Like(pat, s) ==
  IF pat = <<>> THEN s = <<>>
  ELSE IF Head(pat) = "%"
    THEN \E k \in 0..Len(s) : Like(Tail(pat), SubSeq(s, k + 1, Len(s)))
  ELSE IF s = <<>> THEN FALSE
  ELSE IF Head(pat) = "_" THEN Like(Tail(pat), Tail(s))
  ELSE Fold(Head(pat)) = Fold(Head(s)) /\ Like(Tail(pat), Tail(s))

\* -------------------------------------------------------------------- JSON
\* Variant of EscapeChar: the quote is written without its backslash.
EscapeCharBare(c) ==
  IF c = "\\" THEN <<"\\", "\\">> ELSE <<c>>

\* encoding/json string escaping of one character.
EscapeChar(c) ==
  IF c = "\"" THEN <<"\\", "\"">>
  ELSE IF c = "\\" THEN <<"\\", "\\">>
  ELSE <<c>>

RECURSIVE EscapeStr(_)
EscapeStr(s) == IF s = <<>> THEN <<>> ELSE EscapeChar(Head(s)) \o EscapeStr(Tail(s))

RECURSIVE JoinQuoted(_)
JoinQuoted(ss) ==
  IF ss = <<>> THEN <<>>
  ELSE LET q == <<"\"">> \o EscapeStr(Head(ss)) \o <<"\"">>
       IN  IF Len(ss) = 1 THEN q ELSE q \o <<",">> \o JoinQuoted(Tail(ss))

\* The JSON text null.
JsonNull == <<"n", "u", "l", "l">>

\* json.Marshal of a []string: null for the nil slice, else an array of
\* quoted strings.  It never fails for this type.
jsonMarshal(t) ==
  IF t.isNil THEN JsonNull
  ELSE <<"[">> \o JoinQuoted(t.elems) \o <<"]">>

\* Reads a JSON string body starting after its opening quote at position i.
\* Result: ok, the decoded string, and the position after the closing quote.
RECURSIVE ParseString(_, _, _)
ParseString(text, i, acc) ==
  IF i > Len(text) THEN [ok |-> FALSE, str |-> acc, next |-> i]
  ELSE IF text[i] = "\"" THEN [ok |-> TRUE, str |-> acc, next |-> i + 1]
  ELSE IF text[i] = "\\"
    THEN IF i + 1 > Len(text) \/ text[i + 1] \notin {"\"", "\\"}
           THEN [ok |-> FALSE, str |-> acc, next |-> i]
           ELSE ParseString(text, i + 2, Append(acc, text[i + 1]))
  ELSE ParseString(text, i + 1, Append(acc, text[i]))

\* Reads the elements of a JSON array of strings; position i is where an
\* element must start.
RECURSIVE ParseElems(_, _, _)
ParseElems(text, i, acc) ==
  IF i > Len(text) \/ text[i] # "\"" THEN [ok |-> FALSE, val |-> NilSlice]
  ELSE LET r == ParseString(text, i + 1, <<>>)
       IN  IF ~r.ok \/ r.next > Len(text) THEN [ok |-> FALSE, val |-> NilSlice]
           ELSE IF text[r.next] = "]"
             THEN IF r.next = Len(text)
                    THEN [ok |-> TRUE, val |-> MkSlice(Append(acc, r.str))]
                    ELSE [ok |-> FALSE, val |-> NilSlice]
           ELSE IF text[r.next] = ","
             THEN ParseElems(text, r.next + 1, Append(acc, r.str))
           ELSE [ok |-> FALSE, val |-> NilSlice]

\* json.Unmarshal(tagsJSON, &m.Tags) into a zero-valued Memory: null leaves
\* the nil slice, [] gives an empty non-nil slice, anything that is not an
\* array of strings is an error.
jsonUnmarshal(text) ==
  IF text = JsonNull THEN [ok |-> TRUE, val |-> NilSlice]
  ELSE IF Len(text) < 2 \/ text[1] # "[" THEN [ok |-> FALSE, val |-> NilSlice]
  ELSE IF text = <<"[", "]">> THEN [ok |-> TRUE, val |-> MkSlice(<<>>)]
  ELSE ParseElems(text, 2, <<>>)

\* ------------------------------------------------------------------- state
VARIABLES
  rows,   \* the memories table, in rowid order: rows[i].id = i
  req,    \* the request the last handler served
  resp,   \* the response that handler returned
  inflight, \* per worker: the handler it is inside of, between two statements
  fault,  \* the store failure the last step ran into: "none", the kind of
          \* statement that failed, or "next" when rows.Next() stopped early
  proc    \* the process: shutdown flag, quit channel, watcher goroutine, main

vars == <<rows, req, resp, inflight, fault, proc>>

\* The request-handling goroutines that can be inside a handler at once.
Workers == {"w1", "w2"}

\* A worker that is inside no handler.
Idle ==
  [pc |-> "idle", op |-> "none", arg |-> <<>>, content |-> <<>>,
   tags |-> NilSlice, version |-> 0]

\* -------------------------------------------------------------- statements
\* time.Now().UTC() as a logical timestamp: the clock has advanced by the
\* time of each insert.
Now(rs) == Len(rs) + 1

\* Variant of SelectMaxVersion: the maximum is taken over the non-archived
\* rows only (... WHERE memory_id = ? AND archived = 0).
SelectMaxVersionActive(rs, mid) ==
  LET vs == { rs[i].version :
                i \in { j \in DOMAIN rs : rs[j].memory_id = mid /\ ~rs[j].archived } }
  IN  IF vs = {} THEN 0 ELSE CHOOSE v \in vs : \A w \in vs : w <= v

\* Variant of SelectMaxVersion: the maximum is taken over the whole table
\* (the WHERE memory_id = ? clause is left out).
SelectMaxVersionAnyId(rs, mid) ==
  LET vs == { rs[i].version : i \in DOMAIN rs }
  IN  IF vs = {} THEN 0 ELSE CHOOSE v \in vs : \A w \in vs : w <= v

\* SELECT COALESCE(MAX(version), 0) FROM memories WHERE memory_id = ?
RECURSIVE SelectMaxVersion(_, _)
SelectMaxVersion(rs, mid) ==
  IF rs = <<>> THEN 0
  ELSE LET m == SelectMaxVersion(Tail(rs), mid)
           h == Head(rs)
       IN  IF h.memory_id = mid /\ h.version > m THEN h.version ELSE m

\* Variant of InsertMemory: the version is allocated inside the statement
\* (INSERT ... SELECT COALESCE(MAX(version), 0) + 1 ...), the value read
\* earlier is ignored.
InsertMemoryAtomic(rs, mid, version, content, tagsJSON, now) ==
  Append(rs, [id |-> Len(rs) + 1, memory_id |-> mid,
              version |-> SelectMaxVersion(rs, mid) + 1,
              content |-> content, tags |-> tagsJSON, archived |-> FALSE,
              created_at |-> now, updated_at |-> now])

\* Variant of InsertMemory: the row carries the version after the one
\* it was given.
InsertMemoryBumped(rs, mid, version, content, tagsJSON, now) ==
  Append(rs, [id |-> Len(rs) + 1, memory_id |-> mid, version |-> version + 1,
              content |-> content, tags |-> tagsJSON, archived |-> FALSE,
              created_at |-> now, updated_at |-> now])

\* INSERT INTO memories (memory_id, version, content, tags, archived,
\* created_at, updated_at) VALUES (?, ?, ?, ?, 0, ?, ?); id is AUTOINCREMENT.
InsertMemory(rs, mid, version, content, tagsJSON, now) ==
  Append(rs, [id |-> Len(rs) + 1, memory_id |-> mid, version |-> version,
              content |-> content, tags |-> tagsJSON, archived |-> FALSE,
              created_at |-> now, updated_at |-> now])

\* Variant of ArchiveActive: the statement matches no row.
ArchiveActiveNone(rs, mid) == rs

\* Variant of ArchiveActive: only the non-archived row of greatest version
\* is archived.
ArchiveActiveLatest(rs, mid) ==
  [i \in DOMAIN rs |->
     IF /\ rs[i].memory_id = mid /\ ~rs[i].archived
        /\ \A j \in DOMAIN rs :
             (rs[j].memory_id = mid /\ ~rs[j].archived) => rs[j].version <= rs[i].version
       THEN [rs[i] EXCEPT !.archived = TRUE] ELSE rs[i]]

\* Variant of ArchiveActive: the statement also refreshes updated_at
\* (SET archived=1, updated_at=now).
ArchiveActiveTouch(rs, mid) ==
  [i \in DOMAIN rs |->
     IF rs[i].memory_id = mid /\ ~rs[i].archived
       THEN [rs[i] EXCEPT !.archived = TRUE, !.updated_at = Len(rs) + 1]
       ELSE rs[i]]

\* UPDATE memories SET archived=1 WHERE memory_id=? AND archived=0
ArchiveActive(rs, mid) ==
  [i \in DOMAIN rs |->
     IF rs[i].memory_id = mid /\ ~rs[i].archived
       THEN [rs[i] EXCEPT !.archived = TRUE] ELSE rs[i]]

\* Variant of ArchiveAll: only the row of greatest version is archived.
ArchiveAllLatest(rs, mid) ==
  [i \in DOMAIN rs |->
     IF /\ rs[i].memory_id = mid
        /\ \A j \in DOMAIN rs : rs[j].memory_id = mid => rs[j].version <= rs[i].version
       THEN [rs[i] EXCEPT !.archived = TRUE] ELSE rs[i]]

\* UPDATE memories SET archived=1 WHERE memory_id=?
ArchiveAll(rs, mid) ==
  [i \in DOMAIN rs |->
     IF rs[i].memory_id = mid THEN [rs[i] EXCEPT !.archived = TRUE] ELSE rs[i]]

\* ORDER BY memory_id, version DESC: r sorts strictly before s.
RowBefore(r, s) ==
  \/ StrLess(r.memory_id, s.memory_id)
  \/ r.memory_id = s.memory_id /\ r.version > s.version

RECURSIVE InsertSorted(_, _)
InsertSorted(sorted, r) ==
  IF sorted = <<>> THEN <<r>>
  ELSE IF RowBefore(r, Head(sorted)) THEN <<r>> \o sorted
  ELSE <<Head(sorted)>> \o InsertSorted(Tail(sorted), r)

\* Variant of OrderBy: the rows are left in rowid order.
OrderByRowid(rs) == rs

RECURSIVE OrderBy(_)
OrderBy(rs) ==
  IF rs = <<>> THEN <<>>
  ELSE InsertSorted(OrderBy(SubSeq(rs, 1, Len(rs) - 1)), rs[Len(rs)])

\* Variant of SelectActive: the WHERE archived=0 clause is left out.
SelectAllRows(rs) == OrderBy(rs)

\* SELECT ... FROM memories WHERE archived=0 ORDER BY memory_id, version DESC
SelectActive(rs) == OrderBy(SelectSeq(rs, LAMBDA r : ~r.archived))

\* Variant of SelectActiveLike: only the content column is matched.
SelectActiveLikeContent(rs, pat) ==
  OrderBy(SelectSeq(rs, LAMBDA r : ~r.archived /\ Like(pat, r.content)))

\* SELECT ... FROM memories WHERE archived=0 AND (memory_id LIKE ? OR
\* content LIKE ?) ORDER BY memory_id, version DESC
SelectActiveLike(rs, pat) ==
  OrderBy(SelectSeq(rs, LAMBDA r :
    ~r.archived /\ (Like(pat, r.memory_id) \/ Like(pat, r.content))))

\* Variant of SelectLatestActive: ORDER BY version ASC LIMIT 1.
SelectLatestActiveOldest(rs, mid) ==
  LET hit == OrderBy(SelectSeq(rs, LAMBDA r : r.memory_id = mid /\ ~r.archived))
  IN  IF hit = <<>> THEN <<>> ELSE <<hit[Len(hit)]>>

\* SELECT ... FROM memories WHERE memory_id=? AND archived=0
\* ORDER BY version DESC LIMIT 1
SelectLatestActive(rs, mid) ==
  LET hit == OrderBy(SelectSeq(rs, LAMBDA r : r.memory_id = mid /\ ~r.archived))
  IN  IF hit = <<>> THEN <<>> ELSE <<Head(hit)>>

\* rows.Scan into a Memory followed by json.Unmarshal of the tags column.
ScanMemory(r) ==
  LET t == jsonUnmarshal(r.tags)
  IN  [ok |-> t.ok,
       m  |-> [id |-> r.id, memory_id |-> r.memory_id, version |-> r.version,
               content |-> r.content, tags |-> t.val, archived |-> r.archived,
               created_at |-> r.created_at, updated_at |-> r.updated_at]]

\* --------------------------------------------------------------- responses
NoMemories == <<>>

\* *StatusResponse{Status, MemoryID, Version} with HTTP 200.
StatusResponse(text, mid, version) ==
  [status |-> 200, text |-> text, memory_id |-> mid, version |-> version,
   body |-> NoMemories]

\* []Memory (or one *Memory) with HTTP 200.
MemoriesResponse(ms) ==
  [status |-> 200, text |-> "memories", memory_id |-> <<>>, version |-> 0,
   body |-> ms]

\* fuego.BadRequestError (400), fuego.NotFoundError (404), fuego.HTTPError (500).
ErrorResponse(code) ==
  [status |-> code, text |-> "error", memory_id |-> <<>>, version |-> 0,
   body |-> NoMemories]

\* The request a handler receives: the route and what the caller sent.
Request(op, arg, content, tags, bad) ==
  [op |-> op, arg |-> arg, content |-> content, tags |-> tags, bad |-> bad]

\* ---------------------------------------------------------------- handlers
\* Variant of SaveMemoryHandler: the active rows of the id are archived
\* before the insert, as /update-memory does.
SaveMemoryHandlerArchiving(rs, mid, content, tags) ==
  LET archived == ArchiveActive(rs, mid)
      version  == SelectMaxVersion(archived, mid) + 1
  IN  [rows |-> InsertMemory(archived, mid, version, content, jsonMarshal(tags),
                             Now(archived)),
       resp |-> StatusResponse("saved", mid, version)]

\* POST /save-memory after c.Body() succeeded: read the maximum version,
\* insert version + 1, answer "saved".
SaveMemoryHandler(rs, mid, content, tags) ==
  LET version == SelectMaxVersion(rs, mid) + 1
  IN  [rows |-> InsertMemory(rs, mid, version, content, jsonMarshal(tags), Now(rs)),
       resp |-> StatusResponse("saved", mid, version)]

\* Variant of UpdateMemoryHandler: the archive statement is left out.
UpdateMemoryHandlerNoArchive(rs, mid, content, tags) ==
  LET version == SelectMaxVersion(rs, mid) + 1
  IN  [rows |-> InsertMemory(rs, mid, version, content, jsonMarshal(tags), Now(rs)),
       resp |-> StatusResponse("updated", mid, version)]

\* POST /update-memory after c.Body() succeeded: archive the active rows of
\* the id, read the maximum version, insert version + 1, answer "updated".
UpdateMemoryHandler(rs, mid, content, tags) ==
  LET archived == ArchiveActive(rs, mid)
      version  == SelectMaxVersion(archived, mid) + 1
  IN  [rows |-> InsertMemory(archived, mid, version, content, jsonMarshal(tags),
                             Now(archived)),
       resp |-> StatusResponse("updated", mid, version)]

\* Variant of DeleteMemoryHandler: the rows of the id are removed
\* (DELETE FROM memories WHERE memory_id=?).
DeleteMemoryHandlerHard(rs, mid) ==
  [rows |-> SelectSeq(rs, LAMBDA r : r.memory_id # mid),
   resp |-> StatusResponse("archived", mid, 0)]

\* Variant of DeleteMemoryHandler: an id without rows is answered 404.
DeleteMemoryHandlerNotFound(rs, mid) ==
  IF \A i \in DOMAIN rs : rs[i].memory_id # mid
    THEN [rows |-> rs, resp |-> ErrorResponse(404)]
    ELSE [rows |-> ArchiveAll(rs, mid), resp |-> StatusResponse("archived", mid, 0)]

\* POST /delete-memory after c.Body() succeeded: archive every row of the id.
DeleteMemoryHandler(rs, mid) ==
  [rows |-> ArchiveAll(rs, mid), resp |-> StatusResponse("archived", mid, 0)]

\* The rows.Next() loop shared by the list handlers: every selected row is
\* scanned and its tags decoded; the first failure answers 500.
ScanRows(sel) ==
  IF \E i \in DOMAIN sel : ~ScanMemory(sel[i]).ok
    THEN ErrorResponse(500)
    ELSE MemoriesResponse([i \in DOMAIN sel |-> ScanMemory(sel[i]).m])

\* GET /list-memories
ListMemories(rs) == ScanRows(SelectActive(rs))

\* for _, t := range m.Tags { if t == tag ... }
HasTag(m, tag) == \E i \in DOMAIN m.tags.elems : m.tags.elems[i] = tag

\* GET /list-memories-by-tag?tag=
ListMemoriesByTag(rs, tag) ==
  IF tag = <<>> THEN ErrorResponse(400)
  ELSE LET all == ScanRows(SelectActive(rs))
       IN  IF all.status # 200 THEN all
           ELSE MemoriesResponse(SelectSeq(all.body, LAMBDA m : HasTag(m, tag)))

\* GET /get-memory-by-id/{memory_id}
GetMemoryByID(rs, mid) ==
  LET hit == SelectLatestActive(rs, mid)
  IN  IF hit = <<>> THEN ErrorResponse(404)
      ELSE IF ~ScanMemory(hit[1]).ok THEN ErrorResponse(500)
      ELSE MemoriesResponse(<<ScanMemory(hit[1]).m>>)

\* GET /search-memories?q=
SearchMemories(rs, q) == ScanRows(SelectActiveLike(rs, <<"%">> \o q \o <<"%">>))

\* ----------------------------------------------------------------- process
\* main() once the server listens: the local shutdownRequested is false, the
\* quit channel is empty, the watcher goroutine is at the top of its loop
\* and main is inside ListenAndServe.
Running ==
  [flag |-> FALSE, quit |-> 0, watcher |-> "check", main |-> "serving",
   listening |-> TRUE, calls |-> 0, by |-> "none", active |-> 0]

\* ----------------------------------------------------------------- actions
Init ==
  /\ rows = <<>>
  /\ req = Request("none", <<>>, <<>>, NilSlice, FALSE)
  /\ resp = ErrorResponse(0)
  /\ inflight = [w \in Workers |-> Idle]
  /\ fault = "none"
  /\ proc = Running

\* A POST whose body c.Body() cannot parse: 400, no statement runs.
BadRequest ==
  \E op \in {"save", "update", "delete"} :
    /\ req' = Request(op, <<>>, <<>>, NilSlice, TRUE)
    /\ resp' = ErrorResponse(400)
    /\ fault' = "none"
    /\ UNCHANGED proc
    /\ UNCHANGED <<rows, inflight>>

SaveMemory ==
  \E mid \in IdSet, b \in BodySet :
    /\ Len(rows) < MaxRows
    /\ req' = Request("save", mid, b.content, b.tags, FALSE)
    /\ rows' = SaveMemoryHandler(rows, mid, b.content, b.tags).rows
    /\ resp' = SaveMemoryHandler(rows, mid, b.content, b.tags).resp
    /\ UNCHANGED <<inflight, fault, proc>>

UpdateMemory ==
  \E mid \in IdSet, b \in BodySet :
    /\ Len(rows) < MaxRows
    /\ req' = Request("update", mid, b.content, b.tags, FALSE)
    /\ rows' = UpdateMemoryHandler(rows, mid, b.content, b.tags).rows
    /\ resp' = UpdateMemoryHandler(rows, mid, b.content, b.tags).resp
    /\ UNCHANGED <<inflight, fault, proc>>

DeleteMemory ==
  \E mid \in IdSet :
    /\ req' = Request("delete", mid, <<>>, NilSlice, FALSE)
    /\ rows' = DeleteMemoryHandler(rows, mid).rows
    /\ resp' = DeleteMemoryHandler(rows, mid).resp
    /\ UNCHANGED <<inflight, fault, proc>>

ListMemoriesGet ==
  /\ req' = Request("list", <<>>, <<>>, NilSlice, FALSE)
  /\ resp' = ListMemories(rows)
  /\ UNCHANGED <<rows, inflight, fault, proc>>

ListMemoriesByTagGet ==
  \E tag \in TagQuerySet :
    /\ req' = Request("list-by-tag", tag, <<>>, NilSlice, FALSE)
    /\ resp' = ListMemoriesByTag(rows, tag)
    /\ UNCHANGED <<rows, inflight, fault, proc>>

GetMemoryByIDGet ==
  \E mid \in IdSet :
    /\ req' = Request("get", mid, <<>>, NilSlice, FALSE)
    /\ resp' = GetMemoryByID(rows, mid)
    /\ UNCHANGED <<rows, inflight, fault, proc>>

SearchMemoriesGet ==
  \E q \in SearchSet :
    /\ req' = Request("search", q, <<>>, NilSlice, FALSE)
    /\ resp' = SearchMemories(rows, q)
    /\ UNCHANGED <<rows, inflight, fault, proc>>

Next ==
  \/ BadRequest
  \/ SaveMemory
  \/ UpdateMemory
  \/ DeleteMemory
  \/ ListMemoriesGet
  \/ ListMemoriesByTagGet
  \/ GetMemoryByIDGet
  \/ SearchMemoriesGet

\* Requests are served one at a time, each handler running to completion.
Spec == Init /\ [][Next]_vars

\* ------------------------------------------------ concurrent handlers
\* Rows the table may hold when handlers interleave.
ConcMaxRows == 2

\* memory_id values callers send while handlers interleave; the empty one is
\* what a body without a memory_id field decodes to.
ConcIdSet == { <<>>, <<"a">> }

\* content and tags callers send while handlers interleave.
ConcBodySet ==
  { [content |-> <<"x">>, tags |-> MkSlice(<< <<"p">> >>)],
    [content |-> <<"y">>, tags |-> MkSlice(<< <<"p", "q">>, <<"q">> >>)] }

\* Workers that are inside a save or an update and have not inserted yet.
Writers == { w \in Workers : inflight[w].pc # "idle" }

\* A save or an update may start while the table has room for its insert.
HasRoom == Len(rows) + Cardinality(Writers) < ConcMaxRows

\* The request worker w is serving.
RequestOf(w) ==
  Request(inflight[w].op, inflight[w].arg, inflight[w].content,
          inflight[w].tags, FALSE)

\* Worker w returns response r and leaves its handler; f is how the store
\* treated the statement just executed.
Return(w, r, f) ==
  /\ req' = RequestOf(w)
  /\ resp' = r
  /\ inflight' = [inflight EXCEPT ![w] = Idle]
  /\ fault' = f
  /\ UNCHANGED proc

\* Worker w, at position pc of handler op, goes on to position next.
Goto(w, next, version) ==
  /\ inflight' = [inflight EXCEPT ![w].pc = next, ![w].version = version]
  /\ fault' = "none"
  /\ UNCHANGED proc
  /\ UNCHANGED <<req, resp>>

\* POST /save-memory, first statement: c.Body() and the SELECT of the
\* maximum version; err answers 500.
SaveRead(w) ==
  \E mid \in ConcIdSet, b \in ConcBodySet, err \in BOOLEAN :
    /\ inflight[w].pc = "idle"
    /\ HasRoom
    /\ UNCHANGED rows
    /\ fault' = IF err THEN "SELECT" ELSE "none"
    /\ UNCHANGED proc
    /\ IF err
         THEN /\ req' = Request("save", mid, b.content, b.tags, FALSE)
              /\ resp' = ErrorResponse(500)
              /\ UNCHANGED inflight
         ELSE /\ inflight' = [inflight EXCEPT ![w] =
                   [pc |-> "insert", op |-> "save", arg |-> mid,
                    content |-> b.content, tags |-> b.tags,
                    version |-> SelectMaxVersion(rows, mid) + 1]]
              /\ UNCHANGED <<req, resp>>

\* Variant of Insert: when the INSERT of an update fails, the rows of the id
\* that carry its greatest version are made active again (a rollback of the
\* archive).
InsertRollback(w) ==
  \E err \in BOOLEAN :
    /\ inflight[w].pc = "insert"
    /\ IF err
         THEN /\ rows' = [i \in DOMAIN rows |->
                   IF /\ inflight[w].op = "update"
                      /\ rows[i].memory_id = inflight[w].arg
                      /\ rows[i].version = SelectMaxVersion(rows, inflight[w].arg)
                     THEN [rows[i] EXCEPT !.archived = FALSE]
                     ELSE rows[i]]
              /\ Return(w, ErrorResponse(500), "INSERT")
         ELSE /\ rows' = InsertMemory(rows, inflight[w].arg, inflight[w].version,
                                      inflight[w].content,
                                      jsonMarshal(inflight[w].tags), Now(rows))
              /\ Return(w, StatusResponse(
                             IF inflight[w].op = "save" THEN "saved" ELSE "updated",
                             inflight[w].arg, inflight[w].version), "none")

\* Variant of Insert: the INSERT of an update archives the active rows of
\* the id once more in the same statement.
InsertSuperseding(w) ==
  \E err \in BOOLEAN :
    /\ inflight[w].pc = "insert"
    /\ IF err
         THEN /\ UNCHANGED rows
              /\ Return(w, ErrorResponse(500), "INSERT")
         ELSE /\ rows' = InsertMemory(
                           IF inflight[w].op = "update"
                             THEN ArchiveActive(rows, inflight[w].arg) ELSE rows,
                           inflight[w].arg, inflight[w].version,
                           inflight[w].content,
                           jsonMarshal(inflight[w].tags), Now(rows))
              /\ Return(w, StatusResponse(
                             IF inflight[w].op = "save" THEN "saved" ELSE "updated",
                             inflight[w].arg, inflight[w].version), "none")

\* Variant of Insert: a failed INSERT has stored its row all the same.
InsertDespiteError(w) ==
  \E err \in BOOLEAN :
    /\ inflight[w].pc = "insert"
    /\ rows' = InsertMemory(rows, inflight[w].arg, inflight[w].version,
                            inflight[w].content,
                            jsonMarshal(inflight[w].tags), Now(rows))
    /\ IF err
         THEN Return(w, ErrorResponse(500), "INSERT")
         ELSE Return(w, StatusResponse(
                          IF inflight[w].op = "save" THEN "saved" ELSE "updated",
                          inflight[w].arg, inflight[w].version), "none")

\* Variant of Insert: the statement waits while another worker is inside a
\* save or an update of the same memory_id.
InsertWaiting(w) ==
  \E err \in BOOLEAN :
    /\ inflight[w].pc = "insert"
    /\ \A v \in Workers \ {w} :
         inflight[v].pc = "idle" \/ inflight[v].arg # inflight[w].arg
    /\ IF err
         THEN /\ UNCHANGED rows
              /\ Return(w, ErrorResponse(500), "INSERT")
         ELSE /\ rows' = InsertMemory(rows, inflight[w].arg, inflight[w].version,
                                      inflight[w].content,
                                      jsonMarshal(inflight[w].tags), Now(rows))
              /\ Return(w, StatusResponse(
                             IF inflight[w].op = "save" THEN "saved" ELSE "updated",
                             inflight[w].arg, inflight[w].version), "none")

\* POST /save-memory and /update-memory, last statement: the INSERT of the
\* version that was read; err answers 500 and inserts nothing.
Insert(w) ==
  \E err \in BOOLEAN :
    /\ inflight[w].pc = "insert"
    /\ IF err
         THEN /\ UNCHANGED rows
              /\ Return(w, ErrorResponse(500), "INSERT")
         ELSE /\ rows' = InsertMemory(rows, inflight[w].arg, inflight[w].version,
                                      inflight[w].content,
                                      jsonMarshal(inflight[w].tags), Now(rows))
              /\ Return(w, StatusResponse(
                             IF inflight[w].op = "save" THEN "saved" ELSE "updated",
                             inflight[w].arg, inflight[w].version), "none")

\* POST /update-memory, first statement: c.Body() and the UPDATE that
\* archives the active rows of the id; err answers 500.
UpdateArchive(w) ==
  \E mid \in ConcIdSet, b \in ConcBodySet, err \in BOOLEAN :
    /\ inflight[w].pc = "idle"
    /\ HasRoom
    /\ fault' = IF err THEN "UPDATE" ELSE "none"
    /\ UNCHANGED proc
    /\ IF err
         THEN /\ req' = Request("update", mid, b.content, b.tags, FALSE)
              /\ resp' = ErrorResponse(500)
              /\ UNCHANGED <<rows, inflight>>
         ELSE /\ rows' = ArchiveActive(rows, mid)
              /\ inflight' = [inflight EXCEPT ![w] =
                   [pc |-> "read", op |-> "update", arg |-> mid,
                    content |-> b.content, tags |-> b.tags, version |-> 0]]
              /\ UNCHANGED <<req, resp>>

\* POST /update-memory, second statement: the SELECT of the maximum version;
\* err answers 500 and the archive stays.
UpdateRead(w) ==
  \E err \in BOOLEAN :
    /\ inflight[w].pc = "read"
    /\ UNCHANGED rows
    /\ IF err
         THEN Return(w, ErrorResponse(500), "SELECT")
         ELSE Goto(w, "insert", SelectMaxVersion(rows, inflight[w].arg) + 1)

\* Variant of Delete: a successful archive also ends the saves and updates
\* of the same id that other workers are inside of.
DeleteCancelling(w) ==
  \E mid \in ConcIdSet, err \in BOOLEAN :
    /\ inflight[w].pc = "idle"
    /\ req' = Request("delete", mid, <<>>, NilSlice, FALSE)
    /\ fault' = IF err THEN "UPDATE" ELSE "none"
    /\ UNCHANGED proc
    /\ IF err
         THEN resp' = ErrorResponse(500) /\ UNCHANGED <<rows, inflight>>
         ELSE /\ rows' = DeleteMemoryHandler(rows, mid).rows
              /\ resp' = DeleteMemoryHandler(rows, mid).resp
              /\ inflight' = [v \in Workers |->
                                IF inflight[v].arg = mid THEN Idle ELSE inflight[v]]

\* POST /delete-memory: one statement; err answers 500.
Delete(w) ==
  \E mid \in ConcIdSet, err \in BOOLEAN :
    /\ inflight[w].pc = "idle"
    /\ req' = Request("delete", mid, <<>>, NilSlice, FALSE)
    /\ fault' = IF err THEN "UPDATE" ELSE "none"
    /\ UNCHANGED proc
    /\ UNCHANGED inflight
    /\ IF err
         THEN resp' = ErrorResponse(500) /\ UNCHANGED rows
         ELSE /\ rows' = DeleteMemoryHandler(rows, mid).rows
              /\ resp' = DeleteMemoryHandler(rows, mid).resp

\* GET /get-memory-by-id and GET /list-memories: one statement each, served
\* while other workers are between two statements.  The route of get-by-id
\* matches a non-empty path segment.
Read(w) ==
  /\ inflight[w].pc = "idle"
  /\ fault' = "none"
  /\ UNCHANGED proc
  /\ UNCHANGED <<rows, inflight>>
  /\ \/ \E mid \in ConcIdSet \ {<<>>} :
          /\ req' = Request("get", mid, <<>>, NilSlice, FALSE)
          /\ resp' = GetMemoryByID(rows, mid)
     \/ /\ req' = Request("list", <<>>, <<>>, NilSlice, FALSE)
        /\ resp' = ListMemories(rows)

NextConc ==
  \E w \in Workers :
    \/ SaveRead(w)
    \/ UpdateArchive(w)
    \/ UpdateRead(w)
    \/ Insert(w)
    \/ Delete(w)
    \/ Read(w)

\* Handlers of several workers interleave statement by statement; every
\* statement is atomic and may fail.
SpecConc == Init /\ [][NextConc]_vars

\* The statement a worker inside a handler executes next.
Continue(w) == UpdateRead(w) \/ Insert(w)

\* SpecConc with every worker that is inside a handler eventually scheduled
\* for its next statement (goroutines are scheduled fairly; a statement
\* ends with a result or an error).
LiveConc == SpecConc /\ \A w \in Workers : WF_vars(Continue(w))

\* ------------------------------------------------ one memory_id per worker
\* The memory_id whose requests worker w serves when concurrent callers
\* work on distinct ids.
IdOf(w) == IF w = "w1" THEN <<"a">> ELSE <<>>

\* The step of worker w just taken served a request on the id of w: w is
\* inside that request, or has returned from it.
StaysOnOwnId(w) ==
  IF inflight'[w].pc # "idle" THEN inflight'[w].arg = IdOf(w)
                              ELSE req'.arg = IdOf(w)

NextDistinct ==
  \E w \in Workers :
    \/ SaveRead(w) /\ StaysOnOwnId(w)
    \/ UpdateArchive(w) /\ StaysOnOwnId(w)
    \/ UpdateRead(w) /\ StaysOnOwnId(w)
    \/ Insert(w) /\ StaysOnOwnId(w)
    \/ Delete(w) /\ StaysOnOwnId(w)

\* Handlers of several workers interleave statement by statement, every
\* worker on a memory_id of its own.
SpecDistinct == Init /\ [][NextDistinct]_vars

\* ------------------------------------------------ queries on a failing store
\* How the store may treat a query: it answers, the statement itself fails
\* (db.Query or db.QueryRow reports an error), or rows.Next() stops on an
\* error after some rows were delivered.
FaultSet == { "none", "SELECT", "next" }

\* tag and q values callers send to a store that may fail.
SoloTagSet == { <<>>, <<"p">> }
SoloSearchSet == { <<>>, <<"x">> }

\* The rows the for rows.Next() loop sees: all of sel, or its first k rows
\* when rows.Next() returns false on an error (rows.Err() is not consulted).
Fetched(sel, f, k) ==
  IF f = "next" /\ k < Len(sel) THEN SubSeq(sel, 1, k) ELSE sel

\* db.Query followed by the rows.Next() loop: err of db.Query answers 500.
QueryOn(sel, f, k) ==
  IF f = "SELECT" THEN ErrorResponse(500) ELSE ScanRows(Fetched(sel, f, k))

\* GET /list-memories on a store that treats the query as f.
ListMemoriesOn(rs, f, k) == QueryOn(SelectActive(rs), f, k)

\* Variant of ListMemoriesByTagOn: the check of the empty tag is left out.
ListMemoriesByTagOnAny(rs, tag, f, k) ==
  LET all == QueryOn(SelectActive(rs), f, k)
  IN  IF all.status # 200 THEN all
      ELSE MemoriesResponse(SelectSeq(all.body, LAMBDA m : HasTag(m, tag)))

\* GET /list-memories-by-tag?tag= on a store that treats the query as f.
ListMemoriesByTagOn(rs, tag, f, k) ==
  IF tag = <<>> THEN ErrorResponse(400)
  ELSE LET all == QueryOn(SelectActive(rs), f, k)
       IN  IF all.status # 200 THEN all
           ELSE MemoriesResponse(SelectSeq(all.body, LAMBDA m : HasTag(m, tag)))

\* GET /get-memory-by-id/{memory_id} on a store that treats the query as f:
\* db.QueryRow defers its error to Scan, and every error of Scan answers 404.
GetMemoryByIDOn(rs, mid, f) ==
  IF f # "none" THEN ErrorResponse(404) ELSE GetMemoryByID(rs, mid)

\* GET /search-memories?q= on a store that treats the query as f.
SearchMemoriesOn(rs, q, f, k) ==
  QueryOn(SelectActiveLike(rs, <<"%">> \o q \o <<"%">>), f, k)

\* Variant of Query: get-by-id stamps updated_at on the rows of the id it
\* was asked for.
QueryTouching(w) ==
  \E mid \in ConcIdSet \ {<<>>}, f \in FaultSet :
    /\ inflight[w].pc = "idle"
    /\ req' = Request("get", mid, <<>>, NilSlice, FALSE)
    /\ resp' = GetMemoryByIDOn(rows, mid, f)
    /\ fault' = f
    /\ UNCHANGED proc
    /\ rows' = [i \in DOMAIN rows |->
                 IF rows[i].memory_id = mid
                   THEN [rows[i] EXCEPT !.updated_at = Now(rows)]
                   ELSE rows[i]]
    /\ UNCHANGED inflight

\* The four read endpoints, one statement each, on a store that may fail.
Query(w) ==
  \E f \in FaultSet, k \in 0..Len(rows) :
    /\ inflight[w].pc = "idle"
    /\ UNCHANGED <<rows, inflight>>
    /\ \/ /\ req' = Request("list", <<>>, <<>>, NilSlice, FALSE)
          /\ resp' = ListMemoriesOn(rows, f, k)
          /\ fault' = f
          /\ UNCHANGED proc
       \/ \E tag \in SoloTagSet :
            /\ req' = Request("list-by-tag", tag, <<>>, NilSlice, FALSE)
            /\ resp' = ListMemoriesByTagOn(rows, tag, f, k)
            /\ fault' = IF tag = <<>> THEN "none" ELSE f
            /\ UNCHANGED proc
       \/ \E mid \in ConcIdSet \ {<<>>} :
            /\ req' = Request("get", mid, <<>>, NilSlice, FALSE)
            /\ resp' = GetMemoryByIDOn(rows, mid, f)
            /\ fault' = f
            /\ UNCHANGED proc
       \/ \E q \in SoloSearchSet :
            /\ req' = Request("search", q, <<>>, NilSlice, FALSE)
            /\ resp' = SearchMemoriesOn(rows, q, f, k)
            /\ fault' = f
            /\ UNCHANGED proc

\* The worker that serves every request when requests do not overlap.
Solo == "w1"

\* A body that cannot be parsed, sent while no request is being served.
RejectBody ==
  /\ inflight[Solo].pc = "idle"
  /\ BadRequest

NextSolo ==
  \/ RejectBody
  \/ SaveRead(Solo)
  \/ UpdateArchive(Solo)
  \/ UpdateRead(Solo)
  \/ Insert(Solo)
  \/ Delete(Solo)
  \/ Query(Solo)

\* Requests are served one at a time by one worker, statement by statement,
\* on a store that may fail any statement.
SpecSolo == Init /\ [][NextSolo]_vars

\* ------------------------------------------------ tags of every shape
\* Elements a tags sequence may have.
MaxTags == 2

\* Tag strings a caller sends: empty, plain, and the characters the JSON
\* text of the tags column gives a meaning to.
TagStrSet ==
  { <<>>, <<"p">>, <<"q">>, <<"\"">>, <<"\\">>, <<",">>, <<"]">>,
    <<"\\", "\"">>, <<"p", "\"", ",", "\"", "q">> }

RECURSIVE SeqsUpTo(_, _)
SeqsUpTo(S, n) ==
  IF n = 0 THEN { <<>> }
  ELSE LET shorter == SeqsUpTo(S, n - 1)
       IN  shorter \cup { Append(ss, x) : ss \in shorter, x \in S }

\* The tags field of a request body: absent (the nil slice) or a sequence
\* of at most MaxTags strings.
TagsSet == { NilSlice } \cup { MkSlice(ss) : ss \in SeqsUpTo(TagStrSet, MaxTags) }

\* POST /save-memory and POST /update-memory with any tags, on an empty
\* table.
WriteTags ==
  \E mid \in IdSet, t \in TagsSet, op \in {"save", "update"} :
    LET h == IF op = "save" THEN SaveMemoryHandler(rows, mid, <<"x">>, t)
                            ELSE UpdateMemoryHandler(rows, mid, <<"x">>, t)
    IN  /\ rows = <<>>
        /\ req' = Request(op, mid, <<"x">>, t, FALSE)
        /\ rows' = h.rows
        /\ resp' = h.resp
        /\ UNCHANGED <<inflight, fault, proc>>

NextTags ==
  \/ WriteTags
  \/ ListMemoriesGet
  \/ ListMemoriesByTagGet
  \/ GetMemoryByIDGet
  \/ SearchMemoriesGet

\* One record is written with tags of any shape and then read by the four
\* queries.
SpecTags == Init /\ [][NextTags]_vars

\* ------------------------------------------------ search with pattern characters
\* content values saved before a search: one holds a percent sign.
LikeContentSet == { <<"x", "y">>, <<"x", "%">> }

\* q values a caller asks /search-memories for: the two LIKE pattern
\* characters and a plain string.
LikeSearchSet == { <<"%">>, <<"_">>, <<"x">> }

\* POST /save-memory with one of the contents above and no tags.
SaveLike ==
  \E mid \in IdSet, c \in LikeContentSet :
    /\ Len(rows) < MaxRows
    /\ req' = Request("save", mid, c, NilSlice, FALSE)
    /\ rows' = SaveMemoryHandler(rows, mid, c, NilSlice).rows
    /\ resp' = SaveMemoryHandler(rows, mid, c, NilSlice).resp
    /\ UNCHANGED <<inflight, fault, proc>>

\* GET /search-memories?q= with one of the q values above.
SearchLike ==
  \E q \in LikeSearchSet :
    /\ req' = Request("search", q, <<>>, NilSlice, FALSE)
    /\ resp' = SearchMemories(rows, q)
    /\ UNCHANGED <<rows, inflight, fault, proc>>

NextLike ==
  \/ SaveLike
  \/ DeleteMemory
  \/ SearchLike

\* Saves and archives, one at a time, each followed by searches whose q may
\* hold a pattern character.
SpecLike == Init /\ [][NextLike]_vars

\* ------------------------------------------------ shutdown
\* Requests the server may be serving at once.
MaxActive == 2

\* The store part of the state, which the shutdown machinery does not touch.
Store == <<rows, req, resp, inflight, fault>>

\* A connection delivers a request while the listener is open.
RequestArrives ==
  /\ proc.main # "exited" /\ proc.listening
  /\ proc.active < MaxActive
  /\ proc' = [proc EXCEPT !.active = @ + 1]
  /\ UNCHANGED Store

\* A handler writes its response.
RequestReturns ==
  /\ proc.main # "exited"
  /\ proc.active > 0
  /\ proc' = [proc EXCEPT !.active = @ - 1]
  /\ UNCHANGED Store

\* POST /shutdown: the handler of a request being served stores true into
\* the local shutdownRequested (a plain bool that shadows the package-level
\* atomic.Bool).
PostShutdown ==
  /\ proc.main # "exited"
  /\ proc.active > 0
  /\ ~proc.flag
  /\ proc' = [proc EXCEPT !.flag = TRUE]
  /\ UNCHANGED Store

\* os.Interrupt is relayed to quit by signal.Notify; the channel holds one
\* signal and a further one is dropped.
Interrupt ==
  /\ proc.main # "exited"
  /\ proc.quit = 0
  /\ proc' = [proc EXCEPT !.quit = 1]
  /\ UNCHANGED Store

\* httpServer.Shutdown(ctx) is entered: the listeners are closed, which
\* makes ListenAndServe return http.ErrServerClosed.
CallShutdown(p, by) ==
  [p EXCEPT !.watcher = "shutdown", !.listening = FALSE,
            !.calls = @ + 1, !.by = by]

\* Watcher, if shutdownRequested: the read is not synchronised with the
\* handler's write, so after the write it yields true or still false.
WatcherCheck ==
  \E seen \in (IF proc.flag THEN {TRUE, FALSE} ELSE {FALSE}) :
    /\ proc.main # "exited"
    /\ proc.watcher = "check"
    /\ proc' = IF seen THEN CallShutdown(proc, "flag")
                       ELSE [proc EXCEPT !.watcher = "select"]
    /\ UNCHANGED Store

\* Watcher, entering select: a signal already in quit is received at once
\* (the timer of time.After has just been created); else the select waits.
WatcherSelect ==
  /\ proc.main # "exited"
  /\ proc.watcher = "select"
  /\ proc' = IF proc.quit = 1
               THEN CallShutdown([proc EXCEPT !.quit = 0], "signal")
               ELSE [proc EXCEPT !.watcher = "waiting"]
  /\ UNCHANGED Store

\* Watcher, waiting in select: the 200 ms timer fires and the loop goes
\* round, or a signal that arrived in the meantime is received.
WatcherWakes ==
  /\ proc.main # "exited"
  /\ proc.watcher = "waiting"
  /\ \/ proc' = [proc EXCEPT !.watcher = "check"]
     \/ /\ proc.quit = 1
        /\ proc' = CallShutdown([proc EXCEPT !.quit = 0], "signal")
  /\ UNCHANGED Store

\* httpServer.Shutdown returns, when no request is being served or when the
\* 5 s context expires, and the watcher goroutine returns.
ShutdownReturns ==
  \E expired \in BOOLEAN :
    /\ proc.main # "exited"
    /\ proc.watcher = "shutdown"
    /\ proc.active = 0 \/ expired
    /\ proc' = [proc EXCEPT !.watcher = "done"]
    /\ UNCHANGED Store

\* httpServer.ListenAndServe() returns http.ErrServerClosed once the
\* listeners are closed.
ListenAndServeReturns ==
  /\ proc.main = "serving"
  /\ ~proc.listening
  /\ proc' = [proc EXCEPT !.main = "returned"]
  /\ UNCHANGED Store

\* main prints "Server exited cleanly." and returns: the process ends, and
\* with it every goroutine, whatever it was doing.
MainExits ==
  /\ proc.main = "returned"
  /\ proc' = [proc EXCEPT !.main = "exited"]
  /\ UNCHANGED Store

NextShutdown ==
  \/ RequestArrives
  \/ RequestReturns
  \/ PostShutdown
  \/ Interrupt
  \/ WatcherCheck
  \/ WatcherSelect
  \/ WatcherWakes
  \/ ShutdownReturns
  \/ ListenAndServeReturns
  \/ MainExits

\* The watcher goroutine, main and the requests being served, from the
\* moment the server listens until the process ends.
SpecShutdown == Init /\ [][NextShutdown]_vars

\* =========================================================================
\* Properties.  The vocabulary below is defined on the table directly and
\* does not use the statements or the handlers.
\* =========================================================================
\* Positions of the records of a memory_id, and of its non-archived records.
RecordsOf(rs, mid) == { i \in DOMAIN rs : rs[i].memory_id = mid }

ActiveOf(rs, mid) == { i \in RecordsOf(rs, mid) : ~rs[i].archived }

VersionsOf(rs, mid) == { rs[i].version : i \in RecordsOf(rs, mid) }

\* Greatest version of a memory_id, 0 when it has no record.
MaxVersionOf(rs, mid) ==
  IF RecordsOf(rs, mid) = {} THEN 0
  ELSE CHOOSE v \in VersionsOf(rs, mid) : \A w \in VersionsOf(rs, mid) : w <= v

\* Position of the current record: the non-archived record of greatest version.
CurrentOf(rs, mid) ==
  CHOOSE i \in ActiveOf(rs, mid) :
    \A j \in ActiveOf(rs, mid) : rs[j].version <= rs[i].version

\* The memory_id values of the records a query returned.
IdsIn(body) == { body[k].memory_id : k \in DOMAIN body }

\* The last handler was a save or an update that answered 200.
Wrote == req.op \in {"save", "update"} /\ resp.status = 200

\* ---- C1 --------------------------------------------------------------
\* C1: under non-concurrent execution the records of every memory_id carry
\* exactly the versions 1..N, N the number of its records (no duplicate, no
\* gap), and the k-th successful Save or Update on an id inserts a record
\* with version k and returns k, whatever Archive calls and calls on other
\* ids came in between.
C1_VersionsContiguous ==
  /\ \A mid \in IdSet :
       VersionsOf(rows, mid) = 1..Cardinality(RecordsOf(rows, mid))
  /\ Wrote =>
       /\ resp.version = Cardinality(RecordsOf(rows, req.arg))
       /\ rows[Len(rows)].memory_id = req.arg
       /\ rows[Len(rows)].version = resp.version

\* The third write on an id, after an archive, has just returned version 3.
C1_Witness ==
  /\ Wrote
  /\ resp.version = 3
  /\ \E i \in RecordsOf(rows, req.arg) : rows[i].archived

\* ---- C2 --------------------------------------------------------------
\* C2: right after a successful Update on a memory_id, GetByID returns a
\* record and ListCurrent holds exactly one record of the id; in both cases
\* it is non-archived and its content is the content the Update supplied.
C2_SingleCurrentAfterUpdate ==
  (req.op = "update" /\ resp.status = 200) =>
    LET g == GetMemoryByID(rows, req.arg)
        l == ListMemories(rows)
        mine == { k \in DOMAIN l.body : l.body[k].memory_id = req.arg }
    IN  /\ g.status = 200
        /\ Len(g.body) = 1
        /\ g.body[1].memory_id = req.arg
        /\ g.body[1].content = req.content
        /\ ~g.body[1].archived
        /\ l.status = 200
        /\ Cardinality(mine) = 1
        /\ \A k \in mine : l.body[k].content = req.content /\ ~l.body[k].archived

\* An Update has just replaced an earlier content of the id by another one.
C2_Witness ==
  /\ req.op = "update" /\ resp.status = 200
  /\ \E i \in RecordsOf(rows, req.arg) :
       rows[i].archived /\ rows[i].content # req.content

\* ---- C3 --------------------------------------------------------------
\* No query shows a record of mid: the id has no non-archived record,
\* GetByID answers not-found, and ListCurrent, Search and ListByTag return
\* no record of it.
Invisible(rs, mid) ==
  /\ ActiveOf(rs, mid) = {}
  /\ GetMemoryByID(rs, mid).status = 404
  /\ mid \notin IdsIn(ListMemories(rs).body)
  /\ \A q \in SearchSet : mid \notin IdsIn(SearchMemories(rs, q).body)
  /\ \A tag \in TagQuerySet : mid \notin IdsIn(ListMemoriesByTag(rs, tag).body)

\* C3: once Archive(id) has completed, whatever calls preceded it, the id
\* has zero non-archived records; it keeps zero across every later operation
\* that is not a Save or an Update on that id; and an id with zero
\* non-archived records is invisible to every query.
C3_ArchiveTerminal ==
  /\ []((req.op = "delete" /\ resp.status = 200) => ActiveOf(rows, req.arg) = {})
  /\ [](\A mid \in IdSet : ActiveOf(rows, mid) = {} => Invisible(rows, mid))
  /\ [][\A mid \in IdSet :
          (ActiveOf(rows, mid) = {} /\ ~(req'.op \in {"save", "update"} /\ req'.arg = mid))
            => ActiveOf(rows', mid) = {}]_vars

\* An Archive has just hidden an id that has two or more versions.
C3_Witness ==
  /\ req.op = "delete" /\ resp.status = 200
  /\ Cardinality(RecordsOf(rows, req.arg)) >= 2

\* ---- C4 --------------------------------------------------------------
\* C4: ListCurrent returns exactly one record for every memory_id that has
\* a non-archived record, namely the non-archived record of greatest
\* version, and no other record.
C4_ListOnlyLatest ==
  LET l == ListMemories(rows)
  IN  /\ l.status = 200
      /\ { l.body[k].id : k \in DOMAIN l.body }
           = { CurrentOf(rows, mid) : mid \in { m \in IdSet : ActiveOf(rows, m) # {} } }
      /\ \A k, n \in DOMAIN l.body :
           l.body[k].memory_id = l.body[n].memory_id => k = n

C6_AtMostOneActive ==
  \A mid \in IdSet : Cardinality(ActiveOf(rows, mid)) <= 1

\* C6 as amended: a completed Update leaves its id with exactly one
\* non-archived record and a completed Archive with none; the number of
\* non-archived records of an id rises above one only by a Save on that id,
\* which adds one.
C6_AtMostOneActiveUnlessSaved ==
  /\ []((req.op = "update" /\ resp.status = 200) =>
          Cardinality(ActiveOf(rows, req.arg)) = 1)
  /\ []((req.op = "delete" /\ resp.status = 200) =>
          Cardinality(ActiveOf(rows, req.arg)) = 0)
  /\ [][\A mid \in IdSet :
          (/\ Cardinality(ActiveOf(rows', mid)) > 1
           /\ Cardinality(ActiveOf(rows', mid)) > Cardinality(ActiveOf(rows, mid)))
            => /\ req'.op = "save" /\ req'.arg = mid
               /\ Cardinality(ActiveOf(rows', mid))
                    = Cardinality(ActiveOf(rows, mid)) + 1]_vars

\* An Update has just collapsed two non-archived records left by two Saves
\* into one.
C6_Witness ==
  /\ req.op = "update" /\ resp.status = 200 /\ resp.version = 3
  /\ Cardinality(ActiveOf(rows, req.arg)) = 1

\* ---- C7 --------------------------------------------------------------
\* The tags sequence ts has an element equal to tag.
Carries(ts, tag) == \E n \in DOMAIN ts : ts[n] = tag

\* The tags a Save or Update supplied for the record at position i.
SuppliedTags(rs, i) ==
  CHOOSE t \in { b.tags : b \in BodySet } : jsonMarshal(t) = rs[i].tags

\* C7: for a non-empty tag t, ListByTag(t) returns exactly the current
\* records (the non-archived record of greatest version of each memory_id)
\* whose tags contain an element equal to t; a tag that only contains t as
\* a proper substring does not match, and a non-archived record that is not
\* the current one of its id is not returned.
C7_ListByTagExact ==
  \A tag \in TagQuerySet \ {<<>>} :
    LET l == ListMemoriesByTag(rows, tag)
    IN  /\ l.status = 200
        /\ { l.body[k].id : k \in DOMAIN l.body }
             = { i \in { CurrentOf(rows, mid) :
                           mid \in { m \in IdSet : ActiveOf(rows, m) # {} } } :
                   Carries(SuppliedTags(rows, i).elems, tag) }

\* ---- C8 --------------------------------------------------------------
\* The answer g is what GetByID owes for mid in table rs: not-found when mid
\* has no non-archived record, else its non-archived record of greatest
\* version.
GetsCurrent(g, rs, mid) ==
  IF ActiveOf(rs, mid) = {} THEN g.status = 404 /\ g.body = <<>>
  ELSE /\ g.status = 200
       /\ Len(g.body) = 1
       /\ g.body[1].id = CurrentOf(rs, mid)
       /\ g.body[1].memory_id = mid
       /\ g.body[1].version = rs[CurrentOf(rs, mid)].version
       /\ g.body[1].content = rs[CurrentOf(rs, mid)].content
       /\ ~g.body[1].archived

\* C8: GetByID(id) answers not-found exactly when the id has no
\* non-archived record (no record at all, or all archived), and otherwise
\* returns the non-archived record of the id with the greatest version; the
\* GET handler's response is that answer.
C8_GetByIDCurrent ==
  /\ \A mid \in IdSet : GetsCurrent(GetMemoryByID(rows, mid), rows, mid)
  /\ req.op = "get" => GetsCurrent(resp, rows, req.arg)

\* GetByID has just answered for an id with two non-archived records and an
\* archived one.
C8_Witness ==
  /\ req.op = "get" /\ resp.status = 200
  /\ Cardinality(ActiveOf(rows, req.arg)) = 2
  /\ resp.body[1].version = 3

\* ---- C9 --------------------------------------------------------------
\* C9: an Update(id, c) run without interleaving adds one record and leaves
\* exactly one non-archived record of id, the new one, with content c and
\* version = previous greatest version of id + 1 (the version it returns);
\* every record the id had before is archived afterwards and keeps its
\* content and version.
C9_UpdateNetEffect ==
  [][(req'.op = "update" /\ resp'.status = 200) =>
       LET mid == req'.arg
           n   == Len(rows')
       IN  /\ n = Len(rows) + 1
           /\ ActiveOf(rows', mid) = {n}
           /\ rows'[n].memory_id = mid
           /\ rows'[n].content = req'.content
           /\ rows'[n].version = MaxVersionOf(rows, mid) + 1
           /\ resp'.version = rows'[n].version
           /\ \A i \in DOMAIN rows :
                /\ rows'[i].memory_id = rows[i].memory_id
                /\ rows'[i].version = rows[i].version
                /\ rows'[i].content = rows[i].content
                /\ rows[i].memory_id = mid => rows'[i].archived
    ]_vars

\* An Update has just returned version 3 for an id whose two earlier
\* records are archived.
C9_Witness ==
  /\ req.op = "update" /\ resp.status = 200 /\ resp.version = 3
  /\ \A i \in RecordsOf(rows, req.arg) : i # Len(rows) => rows[i].archived

\* ---- C10 -------------------------------------------------------------
\* C10: Archive always answers status "archived"; an Archive of the id that
\* the previous Archive just archived changes no record; archiving the
\* result of an Archive again gives the same table and so the same query
\* results; and an Archive of an id without any record changes nothing.
C10_ArchiveIdempotent ==
  /\ []((req.op = "delete" /\ ~req.bad) =>
          /\ resp.status = 200 /\ resp.text = "archived"
          /\ resp.memory_id = req.arg
          /\ DeleteMemoryHandler(rows, req.arg).rows = rows
          /\ DeleteMemoryHandler(rows, req.arg).resp = resp)
  /\ [][(req'.op = "delete" /\ ~req'.bad) =>
          /\ (req.op = "delete" /\ ~req.bad /\ req.arg = req'.arg) => rows' = rows
          /\ RecordsOf(rows, req'.arg) = {} => rows' = rows
          /\ \A i \in DOMAIN rows : rows[i].archived => rows'[i] = rows[i]
       ]_vars

\* An Archive of an id that has no record has just answered, in a table
\* that holds records of another id.
C10_Witness ==
  /\ req.op = "delete" /\ resp.status = 200 /\ resp.text = "archived"
  /\ RecordsOf(rows, req.arg) = {}
  /\ rows # <<>>

\* ---- C11 -------------------------------------------------------------
\* C11: across every statement of every handler, under any interleaving,
\* a record that has been inserted keeps its id, memory_id, version,
\* content, tags and both timestamps, and its archived flag never goes back
\* from true to false.
C11_RecordsImmutable ==
  [][/\ Len(rows') >= Len(rows)
     /\ \A i \in DOMAIN rows :
          /\ rows'[i].id = rows[i].id
          /\ rows'[i].memory_id = rows[i].memory_id
          /\ rows'[i].version = rows[i].version
          /\ rows'[i].content = rows[i].content
          /\ rows'[i].tags = rows[i].tags
          /\ rows'[i].created_at = rows[i].created_at
          /\ rows'[i].updated_at = rows[i].updated_at
          /\ rows[i].archived => rows'[i].archived
    ]_vars

\* A record has been archived while another worker is between the
\* statements of its own handler.
C11_Witness ==
  /\ \E i \in DOMAIN rows : rows[i].archived
  /\ \E w \in Workers : inflight[w].pc = "insert"

\* ---- C12 -------------------------------------------------------------
\* The step is the insert of a save or an update that answers 200.
InsertSucceeds ==
  \E w \in Workers :
    inflight[w].pc = "insert" /\ inflight'[w].pc = "idle" /\ resp'.status = 200

\* C12: no statement removes a record; the table grows by exactly one
\* record in the step that completes a successful Save or Update and by
\* none in any other step (Archive, the queries, failed statements).
C12_RecordsOnlyGrow ==
  [][/\ Len(rows') = Len(rows) + (IF InsertSucceeds THEN 1 ELSE 0)
     /\ \A i \in DOMAIN rows : rows'[i].id = rows[i].id
    ]_vars

\* Two records are in the table, the second put there by an Update that
\* archived the first.
C12_Witness ==
  /\ Len(rows) = 2
  /\ req.op = "update" /\ resp.status = 200
  /\ rows[1].archived

\* ---- C13 -------------------------------------------------------------
\* q occurs in s as a contiguous substring, ASCII letters compared without
\* regard to case (the store's default collation for LIKE).
ContainsFold(s, q) ==
  \E i \in 1..(Len(s) - Len(q) + 1) :
    \A k \in 1..Len(q) : Fold(s[i + k - 1]) = Fold(q[k])

\* Positions of the records whose memory_id or content contains q.
Matching(rs, q) ==
  { i \in DOMAIN rs : ContainsFold(rs[i].memory_id, q) \/ ContainsFold(rs[i].content, q) }

\* Positions of the current records: one per memory_id with an active record.
CurrentRecords(rs) ==
  { CurrentOf(rs, mid) : mid \in { m \in IdSet : ActiveOf(rs, m) # {} } }

\* C13 as stated: Search(q) returns the current record of every memory_id
\* whose memory_id or content contains q, and nothing else.
C13_SearchCurrentOnly ==
  \A q \in SearchSet :
    LET l == SearchMemories(rows, q)
    IN  /\ l.status = 200
        /\ { l.body[k].id : k \in DOMAIN l.body }
             = CurrentRecords(rows) \cap Matching(rows, q)

\* C13 as amended: for q without the pattern characters % and _, Search(q)
\* returns exactly the non-archived records (every non-archived version of
\* an id, not only its current record) whose memory_id or content contains
\* q as a substring up to ASCII case, each once; the empty q returns every
\* non-archived record and a q that occurs nowhere returns nothing; the
\* GET handler answers just that.
C13_SearchActiveMatching ==
  /\ \A q \in SearchSet :
       LET l == SearchMemories(rows, q)
       IN  /\ l.status = 200
           /\ { l.body[k].id : k \in DOMAIN l.body }
                = { i \in Matching(rows, q) : ~rows[i].archived }
           /\ Len(l.body) = Cardinality({ i \in Matching(rows, q) : ~rows[i].archived })
           /\ q = <<>> => Len(l.body) = Cardinality({ i \in DOMAIN rows : ~rows[i].archived })
           /\ Matching(rows, q) = {} => l.body = <<>>
  /\ req.op = "search" => resp = SearchMemories(rows, req.arg)

\* Search has just returned two non-archived versions of one id.
C13_Witness ==
  /\ req.op = "search" /\ resp.status = 200
  /\ \E k, n \in DOMAIN resp.body :
       k # n /\ resp.body[k].memory_id = resp.body[n].memory_id

\* ---- C14 -------------------------------------------------------------
\* Worker w completes its insert with a 200 in this step.
InsertsNow(w) ==
  inflight[w].pc = "insert" /\ inflight'[w].pc = "idle" /\ resp'.status = 200

\* C14: the insert of a Save or Update carries the version its handler read
\* earlier; when another handler has inserted that version of the same
\* memory_id in the meantime the insert still succeeds and the id then has
\* two records with an identical version.
C14_StaleVersionInserted ==
  [][\A w \in Workers :
       InsertsNow(w) =>
         LET mid == inflight[w].arg
             v   == inflight[w].version
         IN  /\ rows'[Len(rows')].memory_id = mid
             /\ rows'[Len(rows')].version = v
             /\ resp'.version = v
             /\ (\E i \in RecordsOf(rows, mid) : rows[i].version = v) =>
                  Cardinality({ i \in RecordsOf(rows', mid) : rows'[i].version = v }) >= 2
    ]_vars

\* Two Saves have raced: two non-archived records of one memory_id carry
\* the same version, and the last handler to return was a Save.
C14_Witness ==
  /\ req.op = "save" /\ resp.status = 200
  /\ \E i, j \in RecordsOf(rows, req.arg) :
       /\ i # j
       /\ rows[i].version = rows[j].version
       /\ ~rows[i].archived /\ ~rows[j].archived

\* ---- C15 -------------------------------------------------------------
\* Worker w is inside an Update on mid, after its archive statement and
\* before its insert.
InUpdateWindow(w, mid) ==
  inflight[w].op = "update" /\ inflight[w].pc \in {"read", "insert"} /\ inflight[w].arg = mid

\* C15: the archive statement of an Update leaves its memory_id with zero
\* non-archived records while the handler still has its read and its insert
\* to run, so that GetByID answers not-found and ListCurrent omits the id;
\* and a GetByID served while an Update on the id is in that window, no
\* other handler having inserted a record of the id, answers not-found.
C15_ReaderSeesGap ==
  /\ [][\A w \in Workers :
          (inflight[w].pc = "idle" /\ inflight'[w].pc = "read") =>
            LET mid == inflight'[w].arg
            IN  /\ ActiveOf(rows', mid) = {}
                /\ GetMemoryByID(rows', mid).status = 404
                /\ mid \notin IdsIn(ListMemories(rows').body)]_vars
  /\ [][(/\ req'.op = "get" /\ rows' = rows /\ inflight' = inflight
         /\ \E w \in Workers : InUpdateWindow(w, req'.arg)
         /\ ActiveOf(rows, req'.arg) = {})
          => resp'.status = 404]_vars

\* An Update on an id that has a record is between its archive and its
\* insert, and the last response served was not-found for that id.
C15_Witness ==
  \E w \in Workers :
    /\ InUpdateWindow(w, inflight[w].arg)
    /\ req.op = "get" /\ req.arg = inflight[w].arg /\ resp.status = 404
    /\ RecordsOf(rows, inflight[w].arg) # {}

\* ---- C16 -------------------------------------------------------------
\* The step is the successful insert of a save or an update on mid.
InsertsFor(mid) == InsertSucceeds /\ req'.arg = mid

\* C16: when the read or the insert of an Update fails after its archive
\* statement succeeded, the Update answers an internal error, the table is
\* left as the archive statement made it (no record of the id is active),
\* and an id without an active record stays so in every step but the
\* successful insert of a Save or an Update on it, which gives it one.
C16_PartialUpdateKept ==
  /\ [][(InUpdateWindow(Solo, inflight[Solo].arg) /\ fault' # "none") =>
          /\ resp' = ErrorResponse(500)
          /\ req'.op = "update" /\ req'.arg = inflight[Solo].arg
          /\ inflight'[Solo] = Idle
          /\ rows' = rows
          /\ ActiveOf(rows', req'.arg) = {}]_vars
  /\ [][\A mid \in ConcIdSet :
          ActiveOf(rows, mid) = {} =>
            IF InsertsFor(mid) THEN ActiveOf(rows', mid) = {Len(rows')}
                               ELSE ActiveOf(rows', mid) = {}]_vars

\* An Update on an id that has a record was answered 500 because its read
\* or its insert failed, and the id has no active record.
C16_Witness ==
  /\ req.op = "update" /\ resp.status = 500
  /\ fault \in {"SELECT", "INSERT"}
  /\ RecordsOf(rows, req.arg) # {}
  /\ ActiveOf(rows, req.arg) = {}

\* ---- C17 -------------------------------------------------------------
\* C17: whenever the store failed a statement of the last operation, or
\* failed while its result rows were read, the operation answered an
\* internal error (never success, never not-found).
C17_StoreFailureIs500 == fault # "none" => resp.status = 500

\* ---- C18 -------------------------------------------------------------
\* C18: a Save, Update or Archive request without a memory_id, or with a
\* body that cannot be parsed, is answered with a client error; no
\* statement runs for it, so no handler is ever inside such a request and
\* no record carries the empty memory_id.
C18_MissingIdRejected ==
  /\ (req.op \in {"save", "update", "delete"} /\ (req.bad \/ req.arg = <<>>)) =>
       resp.status = 400 /\ fault = "none"
  /\ \A w \in Workers : inflight[w].pc # "idle" => inflight[w].arg # <<>>
  /\ RecordsOf(rows, <<>>) = {}

\* ---- C19 -------------------------------------------------------------
\* C19: ListByTag with an empty tag is answered with a client error that
\* carries no record, whatever the table holds and however the store would
\* have treated a query: no statement is run for it.
C19_EmptyTagRejected ==
  (req.op = "list-by-tag" /\ req.arg = <<>>) =>
    resp = ErrorResponse(400) /\ fault = "none"

\* ListByTag with an empty tag was rejected while the table holds an active
\* record.
C19_Witness ==
  /\ req.op = "list-by-tag" /\ req.arg = <<>>
  /\ resp.status = 400
  /\ \E i \in DOMAIN rows : ~rows[i].archived

\* ---- C20 -------------------------------------------------------------
\* The record with row id n among the records a query returned.
Returned(r, n) == { k \in DOMAIN r.body : r.body[k].id = n }

\* C20: right after a successful Save or Update, ListCurrent, GetByID,
\* Search for the content, and ListByTag for every non-empty tag supplied
\* return the inserted record, and the tags they return for it are the
\* tags the call supplied: same length, same strings, same order.
C20_TagsRoundTrip ==
  Wrote =>
    LET n == Len(rows)
        same(r) == /\ r.status = 200
                   /\ Returned(r, n) # {}
                   /\ \A k \in Returned(r, n) :
                        /\ r.body[k].tags = req.tags
                        /\ Len(r.body[k].tags.elems) = Len(req.tags.elems)
                        /\ \A e \in DOMAIN req.tags.elems :
                             r.body[k].tags.elems[e] = req.tags.elems[e]
    IN  /\ same(ListMemories(rows))
        /\ same(GetMemoryByID(rows, req.arg))
        /\ same(SearchMemories(rows, req.content))
        /\ \A e \in DOMAIN req.tags.elems :
             req.tags.elems[e] # <<>> => same(ListMemoriesByTag(rows, req.tags.elems[e]))

\* GetByID has returned a record whose two tags hold a quote, a comma and a
\* backslash.
C20_Witness ==
  /\ req.op = "get" /\ resp.status = 200
  /\ resp.body[1].tags = MkSlice(<< <<"p", "\"", ",", "\"", "q">>, <<"\\", "\"">> >>)
  /\ rows[resp.body[1].id].tags = jsonMarshal(resp.body[1].tags)

\* ---- C21 -------------------------------------------------------------
\* The routes that only read.
QueryOps == {"list", "list-by-tag", "get", "search"}

\* C21: every record a query returned is a record of the table that is not
\* archived, and is returned as not archived; so a version superseded by
\* Update and a record archived by Archive are returned by no query, in
\* any state reached afterwards.
C21_OnlyActiveReturned ==
  (req.op \in QueryOps /\ resp.status = 200) =>
    \A k \in DOMAIN resp.body :
      /\ resp.body[k].id \in DOMAIN rows
      /\ ~rows[resp.body[k].id].archived
      /\ ~resp.body[k].archived
      /\ resp.body[k].memory_id = rows[resp.body[k].id].memory_id
      /\ resp.body[k].version = rows[resp.body[k].id].version

\* ListCurrent has returned the current record of an id that also has an
\* archived version, while some other record was archived as well.
C21_Witness ==
  /\ req.op = "list" /\ resp.status = 200
  /\ \E k \in DOMAIN resp.body, i \in DOMAIN rows :
       /\ rows[i].archived
       /\ rows[i].memory_id = resp.body[k].memory_id
       /\ rows[i].version < resp.body[k].version

\* ---- C22 -------------------------------------------------------------
\* C22: a step in which ListCurrent, ListByTag, GetByID or Search is served
\* leaves the table as it was, whatever the argument and whether the
\* answer is 200, 400, 404 or 500.
C22_QueriesReadOnly ==
  [][(req'.op \in QueryOps /\ inflight' = inflight) => rows' = rows]_vars

\* A query has been answered with an error while the table holds an active
\* and an archived record.
C22_Witness ==
  /\ req.op \in QueryOps /\ resp.status \in {400, 404, 500}
  /\ \E i, j \in DOMAIN rows : rows[i].archived /\ ~rows[j].archived

\* ---- C23 -------------------------------------------------------------
\* C23: a successful Save or Update on an id all of whose other N records
\* are archived (N = 0: the id had no record) inserts and returns version
\* N + 1, and GetByID and ListCurrent then show the id with that new
\* record only.
C23_VersionOverArchived ==
  (Wrote /\ \A i \in RecordsOf(rows, req.arg) \ {Len(rows)} : rows[i].archived) =>
    LET N == Cardinality(RecordsOf(rows, req.arg)) - 1
        g == GetMemoryByID(rows, req.arg)
        l == ListMemories(rows)
        mine == { k \in DOMAIN l.body : l.body[k].memory_id = req.arg }
    IN  /\ resp.version = N + 1
        /\ rows[Len(rows)].memory_id = req.arg
        /\ rows[Len(rows)].version = N + 1
        /\ ~rows[Len(rows)].archived
        /\ g.status = 200 /\ Len(g.body) = 1 /\ g.body[1].id = Len(rows)
        /\ Cardinality(mine) = 1
        /\ \A k \in mine : l.body[k].id = Len(rows)

\* A Save on an id whose two records had been archived by Archive has
\* returned version 3.
C23_Witness ==
  /\ req.op = "save" /\ resp.status = 200 /\ resp.version = 3
  /\ Cardinality(RecordsOf(rows, req.arg)) = 3
  /\ ActiveOf(rows, req.arg) = {Len(rows)}

\* ---- C24 -------------------------------------------------------------
\* C24: the records ListCurrent, ListByTag and Search return come by
\* memory_id ascending (byte order) and, within one memory_id, by version
\* descending, also when an id has several non-archived records.
C24_ResultsOrdered ==
  (req.op \in {"list", "list-by-tag", "search"} /\ resp.status = 200) =>
    \A j, k \in DOMAIN resp.body :
      j < k =>
        \/ StrLess(resp.body[j].memory_id, resp.body[k].memory_id)
        \/ /\ resp.body[j].memory_id = resp.body[k].memory_id
           /\ resp.body[j].version > resp.body[k].version

\* A list of three records, two of one id, was returned in an order that
\* is not the order of insertion.
C24_Witness ==
  /\ req.op \in {"list", "list-by-tag", "search"} /\ resp.status = 200
  /\ Len(resp.body) = 3
  /\ resp.body[1].memory_id = resp.body[2].memory_id
  /\ resp.body[2].memory_id # resp.body[3].memory_id
  /\ resp.body[1].id > resp.body[3].id

\* ---- C25 -------------------------------------------------------------
\* q occurs in s character for character.
ContainsExact(s, q) ==
  \E i \in 1..(Len(s) - Len(q) + 1) :
    \A k \in 1..Len(q) : s[i + k - 1] = q[k]

\* C25: every record Search(q) returned holds q literally in its memory_id
\* or in its content, also when q holds the characters % and _; so
\* Search("%") returns only records with a percent sign.
C25_SearchLiteral ==
  (req.op = "search" /\ resp.status = 200) =>
    \A k \in DOMAIN resp.body :
      \/ ContainsExact(resp.body[k].memory_id, req.arg)
      \/ ContainsExact(resp.body[k].content, req.arg)

\* ---- C26 -------------------------------------------------------------
\* C26: whatever the interleaving of the statements of Save, Update and
\* Archive, the versions present for a memory_id are exactly 1..M, M its
\* greatest version (0 when it has no record): duplicates may occur, a gap
\* or a version below 1 may not; and M never decreases.
C26_VersionsGapless ==
  /\ [](\A mid \in ConcIdSet :
          VersionsOf(rows, mid) = 1..MaxVersionOf(rows, mid))
  /\ [][\A mid \in ConcIdSet :
          MaxVersionOf(rows', mid) >= MaxVersionOf(rows, mid)]_vars

\* A race has left an id with a duplicate version: two records, one
\* version, after an Archive in between.
C26_Witness ==
  \E mid \in ConcIdSet :
    /\ Cardinality(RecordsOf(rows, mid)) = 2
    /\ VersionsOf(rows, mid) = {1}
    /\ \E i \in RecordsOf(rows, mid) : rows[i].archived

\* ---- C27 -------------------------------------------------------------
\* The archive statement of an Update, or an Archive, on mid is executed
\* with success in this step.
ArchivesNow(mid) ==
  \/ \E w \in Workers :
       inflight[w].pc = "idle" /\ inflight'[w].pc = "read" /\ inflight'[w].arg = mid
  \/ /\ req'.op = "delete" /\ req'.arg = mid /\ resp'.status = 200
     /\ inflight' = inflight

\* C27: the insert of a Save or an Update archives nothing: the active
\* records of its id are those that were active plus the new one, so a
\* record another call inserted after this Update's archive statement
\* stays active next to the Update's own; and an active record stops being
\* active only in a step that executes the archive statement of an Update
\* or an Archive on its id.
C27_InsertKeepsActive ==
  /\ [][\A w \in Workers :
          InsertsNow(w) =>
            ActiveOf(rows', inflight[w].arg) =
              ActiveOf(rows, inflight[w].arg) \cup {Len(rows')}]_vars
  /\ [][\A mid \in ConcIdSet :
          (ActiveOf(rows, mid) \ ActiveOf(rows', mid) # {}) => ArchivesNow(mid)]_vars

\* An Update has returned success, no handler is running, and its id has
\* two non-archived records.
C27_Witness ==
  /\ req.op = "update" /\ resp.status = 200
  /\ \A w \in Workers : inflight[w].pc = "idle"
  /\ Cardinality(ActiveOf(rows, req.arg)) = 2

\* ---- C28 -------------------------------------------------------------
\* C28: a successful Archive that archives a record (no handler starts in
\* that step) is one step that leaves its id without an active record and
\* leaves the handlers other workers are inside of as
\* they are; and when a Save or an Update of that id, in flight during the
\* Archive, inserts right after it, the id has the new record as its active
\* record and GetByID returns it.
C28_InsertAfterArchive ==
  /\ [][(/\ req'.op = "delete" /\ resp'.status = 200 /\ rows' # rows
         /\ \A w \in Workers : inflight[w].pc = "idle" => inflight'[w].pc = "idle") =>
          /\ ActiveOf(rows', req'.arg) = {}
          /\ Len(rows') = Len(rows)
          /\ inflight' = inflight]_vars
  /\ [][\A w \in Workers :
          (/\ InsertsNow(w)
           /\ req.op = "delete" /\ req.arg = inflight[w].arg /\ resp.status = 200) =>
            LET g == GetMemoryByID(rows', inflight[w].arg)
            IN  /\ ActiveOf(rows', inflight[w].arg) = {Len(rows')}
                /\ g.status = 200
                /\ g.body[1].id = Len(rows')]_vars

\* Archive has archived a record of an id and returned success while a
\* Save or an Update on that id has its insert still to run.
C28_Witness ==
  /\ req.op = "delete" /\ resp.status = 200
  /\ RecordsOf(rows, req.arg) # {}
  /\ ActiveOf(rows, req.arg) = {}
  /\ \E w \in Workers : inflight[w].pc = "insert" /\ inflight[w].arg = req.arg

\* ---- C29 -------------------------------------------------------------
\* The step is taken by a handler that works on mid.
ActsOn(mid) ==
  \/ \E w \in Workers :
       /\ inflight'[w] # inflight[w]
       /\ mid = (IF inflight[w].pc # "idle" THEN inflight[w].arg ELSE inflight'[w].arg)
  \/ inflight' = inflight /\ req'.arg = mid

\* The records of mid are the same, field by field, before and after.
SameRecords(mid) ==
  /\ RecordsOf(rows', mid) = RecordsOf(rows, mid)
  /\ \A i \in RecordsOf(rows, mid) : rows'[i] = rows[i]

\* C29: a step of Save, Update or Archive changes or adds records of the
\* memory_id it works on only; the version a handler reads is one more than
\* the greatest version among the records of its own id; and when the
\* concurrent handlers work on distinct ids, every id has the versions it
\* would get alone: 1..N for its N records, the k-th insert returning k.
C29_IdsIndependent ==
  /\ [][\A mid \in ConcIdSet : SameRecords(mid) \/ ActsOn(mid)]_vars
  /\ [][\A w \in Workers :
          (inflight[w].pc \in {"idle", "read"} /\ inflight'[w].pc = "insert") =>
            inflight'[w].version = MaxVersionOf(rows, inflight'[w].arg) + 1]_vars
  /\ [](\A mid \in ConcIdSet :
          VersionsOf(rows, mid) = 1..Cardinality(RecordsOf(rows, mid)))
  /\ [][\A w \in Workers :
          InsertsNow(w) =>
            resp'.version = Cardinality(RecordsOf(rows', inflight[w].arg))]_vars

\* A handler has read version 1 for its id and has its insert still to run
\* while the table holds a record of another id, whose handler returned
\* last.
C29_Witness ==
  \E w \in Workers :
    /\ inflight[w].pc = "insert" /\ inflight[w].version = 1
    /\ rows # <<>>
    /\ \A i \in DOMAIN rows : rows[i].memory_id # inflight[w].arg
    /\ req.arg # inflight[w].arg /\ resp.status = 200

\* ---- C30 -------------------------------------------------------------
\* C30: the max-version read of a Save changes no record; and the step in
\* which the read or the insert of a Save fails, or the statement of an
\* Archive fails, answers an internal error, ends the handler and leaves
\* the table as it was: no record added, no archived flag changed.
C30_FailedWriteNoEffect ==
  /\ [][(inflight[Solo].pc = "idle" /\ inflight'[Solo].pc = "insert") =>
          rows' = rows]_vars
  /\ [][(fault' # "none" /\ req'.op \in {"save", "delete"}) =>
          /\ resp' = ErrorResponse(500)
          /\ inflight'[Solo] = Idle
          /\ rows' = rows]_vars

\* The insert of a Save has failed and was answered 500 while the table
\* holds a record of the id, still not archived.
C30_Witness ==
  /\ req.op = "save" /\ fault = "INSERT" /\ resp.status = 500
  /\ ActiveOf(rows, req.arg) # {}

\* ---- C31 -------------------------------------------------------------
\* C31: the watcher calls the server's Shutdown at most once, and only
\* after POST /shutdown was handled or an interrupt was received; having
\* called it the watcher stops, and only after that does ListenAndServe
\* return and the process exit: whenever main is past ListenAndServe the
\* watcher has called Shutdown once and has returned from its loop.
C31_ShutdownThenExit ==
  /\ proc.calls <= 1
  /\ proc.calls = 1 => (proc.flag \/ proc.by = "signal")
  /\ proc.main # "serving" => (proc.calls = 1 /\ proc.watcher = "done")

\* ---- C32 -------------------------------------------------------------
\* C32: a worker inside a Save or an Update can always execute its next
\* statement, whatever the other workers are inside of (it waits for no
\* other operation and for no lock), and under fair scheduling it
\* eventually returns a response; Archive and the queries return in the
\* step that starts them.
C32_EveryOperationReturns ==
  /\ [](\A w \in Workers : inflight[w].pc # "idle" => ENABLED Continue(w))
  /\ \A w \in Workers : (inflight[w].pc # "idle") ~> (inflight[w].pc = "idle")

\* Two workers are inside writes on the same memory_id at once, one of
\* them an Update that has archived and read.
C32_Witness ==
  /\ \A w \in Workers : inflight[w].pc = "insert"
  /\ inflight["w1"].arg = inflight["w2"].arg
  /\ \E w \in Workers : inflight[w].op = "update"

====
